---- MODULE Spec2Model ----
(***************************************************************************)
(* The upload queue of src/hooks/use-upload-manager.ts, in its two         *)
(* revisions: the startBatchUpload revision (lines 1-380, rev = "A") and   *)
(* the processQueue revision (lines 382-786, rev = "B").                   *)
(*                                                                         *)
(* The hook is a React component function: every state update is followed  *)
(* by a render, and the callbacks of the latest render see the current     *)
(* `files`.  A callback captured earlier keeps the `files` of its own      *)
(* render: the timer of the auto-upload effect, a drain loop that is still *)
(* running, and a caller that awaits before it calls (addFromUrl of the    *)
(* upload interface).  Those snapshots are state of the model.             *)
(***************************************************************************)
EXTENDS Integers, Sequences, FiniteSets, TLC

(* ------------------------------ bounds -------------------------------- *)
\* entries ever created by generateId
MaxIds == 2
\* candidates handed to one addFiles call
MaxCands == 2
\* startBatchUpload invocations draining at the same time
MaxInv == 2
\* setTimeout(processQueue, 100) callbacks waiting at the same time (rev B)
MaxTimers == 1
\* retryFile calls in one run
MaxRetries == 1
\* largest config.concurrency tried
MaxConcurrency == 2
\* largest config.batchSize tried
MaxBatchSize == 2

(* --------------------------- program constants ------------------------ *)
DefaultMaxFileSize == 256 * 1024 * 1024
DefaultAllowedTypes == {"image/jpeg", "image/jpg", "image/png", "image/webp", "image/heic"}
Undefined == "undefined"
TimedOut == "Upload timed out"
UploadFailed == "Upload failed"
ServerError == "Server error - check backend connection"
EndpointNotFound == "Upload endpoint not found"
NetworkError == "Network error - check server connection"

VARIABLES
  rev,              \* which revision of the hook is running
  cfg,              \* finalConfig
  files,            \* the `files` state
  results,          \* the `results` state
  uploadQueueRef,   \* uploadQueueRef.current
  activeUploadsRef, \* activeUploadsRef.current
  timers,           \* pending setTimeout callbacks, each with its snapshot
  held,             \* files.length of the addFiles a waiting caller holds
  invs,             \* the startBatchUpload invocations still draining (rev A):
                    \* what is left of `queue`, and the requests in `running`
  transfers,        \* axios.post calls in flight
  nextId,           \* next id generateId hands out
  now,              \* Date.now()
  ret,              \* what the call that just returned was given and returned
  started,          \* ids of the queue for which a POST has been issued
  userStarted,      \* the caller has invoked startBatchUpload itself
  retries,          \* retryFile calls so far
  resubmitted       \* ids the step just taken started again although they had
                    \* settled and retryFile had not reset them

vars == <<rev, cfg, files, results, uploadQueueRef, activeUploadsRef, timers,
          held, invs, transfers, nextId, now, ret, started, userStarted,
          retries, resubmitted>>

(* ------------------------------ helpers ------------------------------- *)
Min(a, b) == IF a < b THEN a ELSE b
Max(a, b) == IF a > b THEN a ELSE b

Range(s) == {s[i] : i \in 1..Len(s)}

Ids(fs) == {fs[i].id : i \in 1..Len(fs)}

\* Array.prototype.find by id; only used where the id is present
Find(fs, id) == fs[CHOOSE i \in 1..Len(fs) : fs[i].id = id]

\* Array.prototype.filter
Filter(s, keep(_)) == SelectSeq(s, keep)

\* Array.prototype.map
MapSeq(s, f(_)) == [i \in 1..Len(s) |-> f(s[i])]

IsPending(f) == f.status = "pending"
IsUploading(f) == f.status = "uploading"

PendingIds(fs) == MapSeq(Filter(fs, IsPending), LAMBDA f : f.id)

Uploading(fs) == {i \in 1..Len(fs) : IsUploading(fs[i])}

Terminal == {"success", "error", "cancelled"}

(* ------------------------------ inputs -------------------------------- *)
\* the candidate Files a caller may hand to addFiles: two that pass
\* validateFile (one of them of exactly the size limit), one of a type that
\* is not allowed and one that is a byte too large
AllCands ==
  {[name |-> "a.png", type |-> "image/png", size |-> DefaultMaxFileSize],
   [name |-> "b.png", type |-> "image/png", size |-> 1],
   [name |-> "c.pdf", type |-> "application/pdf", size |-> 1],
   [name |-> "d.png", type |-> "image/png", size |-> DefaultMaxFileSize + 1]}

\* the candidates the scheduler runs are fed: one valid file
GoodCands == {[name |-> "a.png", type |-> "image/png", size |-> DefaultMaxFileSize]}

SeqsUpTo(S, n) == UNION {[1..k -> S] : k \in 1..n}

\* the percentages an onUploadProgress event may report, and the seconds
\* that may have passed since startTime when it does
ProgressValues == {50}
ElapsedSeconds == {0, 2}

\* the same for the runs about the estimate: nothing sent yet, part of the
\* body sent, all of it sent; within the same second, one and two seconds on
EtaProgressValues == {0, 30, 100}
EtaElapsedSeconds == {0, 1, 2}

(* ------------------------------ admission ----------------------------- *)
\* validateFile refusing a file of exactly the size limit
validateFileStrict(c) ==
  IF c.type \notin cfg.allowedTypes THEN "type"
  ELSE IF c.size >= cfg.maxFileSize THEN "size"
  ELSE "null"

\* validateFile: null, or the reason the file is refused
validateFile(c) ==
  IF c.type \notin cfg.allowedTypes THEN "type"
  ELSE IF c.size > cfg.maxFileSize THEN "size"
  ELSE "null"

NewEntry(id, c) ==
  [id |-> id, name |-> c.name, size |-> c.size, type |-> c.type,
   progress |-> 0, eta |-> 0, status |-> "pending", error |-> Undefined,
   uploadedUrl |-> Undefined, abortController |-> {}, startTime |-> {}]

\* the text pushed on errors for a candidate over the count limit
MaxFilesMessage(t) ==
  [reason |-> "maxFiles", file |-> Undefined, limit |-> cfg.maxFiles, localized |-> t]

\* the text pushed on errors for a candidate validateFile refuses
ValidationMessage(c, why, t) ==
  [reason |-> why, file |-> c.name, limit |-> cfg.maxFiles, localized |-> t]

\* the count test with the comparison off by one
OverLimitOffByOne(len, accepted) == len + accepted > cfg.maxFiles

\* files.length + newFiles.length >= finalConfig.maxFiles
OverLimit(len, accepted) == len + accepted >= cfg.maxFiles

\* the forEach of addFiles: acc = [newFiles, errors, verdicts]
RECURSIVE AdmitLoop(_, _, _, _)
AdmitLoop(cands, t, len, acc) ==
  IF cands = <<>> THEN acc
  ELSE LET c == Head(cands)
           why == validateFile(c)
       IN IF OverLimit(len, Len(acc.newFiles))
          THEN AdmitLoop(Tail(cands), t, len,
                 [acc EXCEPT !.errors = Append(@, MaxFilesMessage(t)),
                             !.verdicts = Append(@, "maxFiles")])
          ELSE IF why # "null"
          THEN AdmitLoop(Tail(cands), t, len,
                 [acc EXCEPT !.errors = Append(@, ValidationMessage(c, why, t)),
                             !.verdicts = Append(@, why)])
          ELSE AdmitLoop(Tail(cands), t, len,
                 [acc EXCEPT !.newFiles = Append(@, NewEntry(nextId + Len(@), c)),
                             !.verdicts = Append(@, "accepted")])

NoCall == [op |-> "none"]

QueueEntry(f) == [id |-> f.id, status |-> f.status]

\* the auto-upload effect (rev A), run after the render that follows
\* addFiles: autoUploadRef is set and `files` has pending entries, so the
\* flag is cleared and a timer is set that keeps this render's
\* startBatchUpload, i.e. this snapshot of the pending entries
AutoUploadEffect(fs) ==
  IF PendingIds(fs) # <<>> THEN Append(timers, PendingIds(fs)) ELSE timers

\* addFiles(fileList, t) of a render in which files.length was len
AddFiles(cands, t, len) ==
  LET a == AdmitLoop(cands, t, len, [newFiles |-> <<>>, errors |-> <<>>, verdicts |-> <<>>])
  IN
  /\ nextId + Len(a.newFiles) <= MaxIds + 1
  /\ IF Len(a.newFiles) > 0
     THEN /\ files' = files \o a.newFiles
          /\ uploadQueueRef' = uploadQueueRef \o MapSeq(a.newFiles, QueueEntry)
          /\ timers' = IF rev = "A" THEN AutoUploadEffect(files \o a.newFiles)
                       ELSE Append(timers, <<>>)
     ELSE UNCHANGED <<files, uploadQueueRef, timers>>
  /\ nextId' = nextId + Len(a.newFiles)
  /\ ret' = [op |-> "addFiles", cands |-> cands, t |-> t, len |-> len,
             verdicts |-> a.verdicts,
             addedFiles |-> Len(a.newFiles), errors |-> a.errors]
  /\ UNCHANGED <<rev, cfg, results, activeUploadsRef, invs, transfers, now,
                 started, userStarted, retries>>
  /\ resubmitted' = {}

\* the caller calls the addFiles of the latest render
AddFilesNow(cands, t) ==
  /\ AddFiles(cands, t, Len(files))
  /\ UNCHANGED held

\* a caller takes the addFiles of the latest render and awaits before it
\* calls it (addFromUrl awaits its HEAD request)
HoldAddFiles ==
  /\ held = {}
  /\ held' = {Len(files)}
  /\ ret' = NoCall
  /\ UNCHANGED <<rev, cfg, files, results, uploadQueueRef, activeUploadsRef,
                 timers, invs, transfers, nextId, now, started, userStarted,
                 retries>>
  /\ resubmitted' = {}

\* the waiting caller resumes and calls the addFiles it holds
AddFilesHeld(cands, t) ==
  /\ held # {}
  /\ \E len \in held : AddFiles(cands, t, len)
  /\ held' = {}

(* ------------------------------ transfers ----------------------------- *)
\* AbortController objects are named by numbers; a new one takes the
\* smallest number no live request and no entry refers to
Controllers(fs) == UNION {fs[i].abortController : i \in 1..Len(fs)}

ControllerNames == 1..(4 * MaxIds + MaxInv * MaxConcurrency)

NewController(fs, tr) ==
  LET used == {t.tid : t \in tr} \cup Controllers(fs)
  IN CHOOSE c \in ControllerNames :
       c \notin used /\ \A d \in 1..(c - 1) : d \in used

\* setFiles(prev => prev.map(... status: 'uploading', abortController, startTime ...))
SetUploading(fs, ids, c) ==
  MapSeq(fs, LAMBDA f :
    IF f.id \in ids
    THEN [f EXCEPT !.status = "uploading", !.abortController = {c}, !.startTime = {now}]
    ELSE f)

\* the part of uploadSingleFile / uploadFile that runs before its await:
\* mark the entry uploading and issue the POST.  st = [fs, tr]
RECURSIVE LaunchSingles(_, _)
LaunchSingles(st, ids) ==
  IF ids = <<>> THEN st
  ELSE LET c == NewController(st.fs, st.tr)
       IN LaunchSingles(
            [fs |-> SetUploading(st.fs, {Head(ids)}, c),
             tr |-> st.tr \cup {[tid |-> c, ids |-> <<Head(ids)>>, aborted |-> FALSE]}],
            Tail(ids))

\* updateFileStatus showing a finished entry as fully sent
SetStatusCompletes(fs, id, status, error, url) ==
  MapSeq(fs, LAMBDA f :
    IF f.id = id
    THEN [f EXCEPT !.status = status, !.error = error, !.uploadedUrl = url,
                   !.progress = IF status = "success" THEN 100 ELSE @]
    ELSE f)

\* updateFileStatus(id, status, error, uploadedUrl): the setFiles part
SetStatus(fs, id, status, error, url) ==
  MapSeq(fs, LAMBDA f :
    IF f.id = id
    THEN [f EXCEPT !.status = status, !.error = error, !.uploadedUrl = url]
    ELSE f)

\* updateFileStatus: the setResults part.  The entry is looked up in the
\* `files` of the render the running callback chain was created in.
AddResult(rs, id, status, url, inClosure) ==
  IF status = "success" /\ url # Undefined /\ inClosure
  THEN Append(rs, [id |-> id, url |-> url])
  ELSE rs

\* the ids a step handed to a transfer although they had settled and were
\* not reset by retryFile since
Resubmitted(fs, ids) ==
  {id \in ids : id \in Ids(fs) /\ Find(fs, id).status \in Terminal}

\* Math.round(n / d) for n >= 0, d > 0
Round(n, d) == (2 * n + d) \div (2 * d)

\* calculateETA cutting the quotient off instead of rounding it
calculateETAFloor(f, elapsed) ==
  IF f.startTime = {} \/ f.progress = 0 THEN 0
  ELSE ((100 - f.progress) * elapsed) \div f.progress

\* calculateETA(uploadFile), elapsed seconds having passed since startTime:
\* remaining / (progress / elapsed)
calculateETA(f, elapsed) ==
  IF f.startTime = {} \/ f.progress = 0 THEN 0
  ELSE Round((100 - f.progress) * elapsed, f.progress)

\* updateFileProgress(id, progress) for every id in ids
UpdateFileProgress(fs, ids, progress, elapsed) ==
  MapSeq(fs, LAMBDA f :
    IF f.id \in ids
    THEN [f EXCEPT !.progress = progress,
                   !.eta = calculateETA([f EXCEPT !.progress = progress], elapsed)]
    ELSE f)

\* an onUploadProgress event of a POST that is on its way
UploadProgress(t, progress, elapsed) ==
  /\ t \in transfers
  /\ ~t.aborted
  /\ files' = UpdateFileProgress(files, Range(t.ids), progress, elapsed)
  /\ ret' = NoCall
  /\ resubmitted' = {}
  /\ UNCHANGED <<rev, cfg, results, uploadQueueRef, activeUploadsRef, timers,
                 held, invs, transfers, nextId, now, started, userStarted, retries>>

(* ----------------------- revision A: startBatchUpload ----------------- *)
\* const limit = finalConfig.concurrency || 3
Limit == IF cfg.concurrency = 0 THEN 3 ELSE cfg.concurrency

Take(s, n) == SubSeq(s, 1, Min(n, Len(s)))
Drop(s, n) == SubSeq(s, Min(n, Len(s)) + 1, Len(s))

\* the inner loop taking from the end of the queue (queue.pop())
ShiftFromEnd(queue, n) ==
  LET k == Min(Max(n, 0), Len(queue))
  IN [taken |-> [i \in 1..k |-> queue[Len(queue) + 1 - i]],
      rest |-> SubSeq(queue, 1, Len(queue) - k)]

\* the inner loop leaving one free slot unused
ShiftOneLess(queue, n) ==
  [taken |-> Take(queue, Max(n - 1, 0)), rest |-> Drop(queue, Max(n - 1, 0))]

\* the inner while loop of startBatchUpload, n slots being free:
\* queue.shift() while running.length < limit && queue.length > 0
Shift(queue, n) ==
  [taken |-> Take(queue, Max(n, 0)), rest |-> Drop(queue, Max(n, 0))]

\* startBatchUpload with `files` being the snapshot whose pending ids are
\* pendingFiles: the body up to the first await Promise.race
StartBatchUpload(pendingFiles) ==
  IF pendingFiles = <<>>
  THEN /\ resubmitted' = {}
       /\ UNCHANGED <<files, invs, transfers, started>>
  ELSE /\ Cardinality(invs) < MaxInv
       /\ LET sh == Shift(pendingFiles, Limit)
              first == sh.taken
              st == LaunchSingles([fs |-> files, tr |-> transfers], first)
          IN /\ files' = st.fs
             /\ transfers' = st.tr
             /\ invs' = invs \cup {[queue |-> sh.rest,
                                    running |-> {t.tid : t \in st.tr \ transfers}]}
             /\ started' = started \cup (Range(first) \cap Ids(files))
             /\ resubmitted' = Resubmitted(files, Range(first))

\* the caller invokes the startBatchUpload of the latest render
ExplicitStart ==
  /\ rev = "A"
  /\ StartBatchUpload(PendingIds(files))
  /\ userStarted' = TRUE
  /\ ret' = NoCall
  /\ UNCHANGED <<rev, cfg, results, uploadQueueRef, activeUploadsRef, timers,
                 held, nextId, now, retries>>

\* the timer of the auto-upload effect fires: startBatchUpload of the
\* render the effect ran in
AutoStart ==
  /\ rev = "A"
  /\ timers # <<>>
  /\ StartBatchUpload(Head(timers))
  /\ timers' = Tail(timers)
  /\ ret' = NoCall
  /\ UNCHANGED <<rev, cfg, results, uploadQueueRef, activeUploadsRef, held,
                 nextId, now, userStarted, retries>>

\* the placeholder URL.createObjectURL(file.file) makes up for the file of
\* entry id: a URL of its own for every object it is asked about
Blob(id) == "blob:" \o ToString(id)

\* a || b || c
FirstOf(a, b, c) == IF a # Undefined THEN a ELSE IF b # Undefined THEN b ELSE c

\* what the POST of uploadSingleFile can end in: a response, the client-side
\* timeout (ECONNABORTED), a 500, a 404, a network error, another failure
\* with or without a message, or the abort
SingleResponses(t) ==
  IF t.aborted THEN {[kind |-> "cancel"]}
  ELSE {[kind |-> "plain", url |-> u, file_url |-> f] :
          u \in {"url", Undefined}, f \in {"file_url", Undefined}}
       \cup {[kind |-> k] : k \in {"timeout", "http500", "http404", "network"}}
       \cup {[kind |-> "failed", message |-> m] : m \in {"Network Error", Undefined}}

\* the responses the scheduler runs are fed
BasicSingleResponses(t) ==
  IF t.aborted THEN {[kind |-> "cancel"]}
  ELSE {[kind |-> "plain", url |-> "url", file_url |-> Undefined],
        [kind |-> "failed", message |-> Undefined]}

\* a catch block that marks the entry and throws the failure again
TransferPromiseThrows(resp) ==
  IF resp.kind \in {"plain", "cancel"} THEN "fulfilled" ELSE "rejected"

\* a catch block that hands failures it has no message for on to the caller
TransferPromiseRethrows(resp) ==
  IF resp.kind = "failed" /\ resp.message = Undefined THEN "rejected" ELSE "fulfilled"

\* how the promise of uploadSingleFile, uploadFile and uploadBatch settles:
\* try / catch / finally without a throw in catch or finally
TransferPromise(resp) == "fulfilled"

\* the updateFileStatus call of uploadSingleFile(uploadFile) for a response,
\* id being uploadFile.id
SingleMark(id, resp) ==
  CASE resp.kind = "plain" ->
         [status |-> "success", error |-> Undefined,
          url |-> FirstOf(resp.url, resp.file_url, Blob(id))]
    [] resp.kind = "cancel" ->
         [status |-> "cancelled", error |-> Undefined, url |-> Undefined]
    [] resp.kind = "timeout" ->
         [status |-> "error", error |-> TimedOut, url |-> Undefined]
    [] resp.kind = "http500" ->
         [status |-> "error", error |-> ServerError, url |-> Undefined]
    [] resp.kind = "http404" ->
         [status |-> "error", error |-> EndpointNotFound, url |-> Undefined]
    [] resp.kind = "network" ->
         [status |-> "error", error |-> NetworkError, url |-> Undefined]
    [] resp.kind = "failed" ->
         [status |-> "error", url |-> Undefined,
          error |-> FirstOf(resp.message, Undefined, UploadFailed)]

\* a POST of uploadSingleFile settles: try/catch/finally of uploadSingleFile,
\* the .finally that splices `running`, and the drain loop of the invocation
\* up to its next await; a rejection would make await Promise.race throw
\* and end the invocation with what is left in its queue
SettleSingleA(t, resp) ==
  /\ rev = "A"
  /\ t \in transfers
  /\ resp \in SingleResponses(t)
  /\ \E inv \in invs :
       /\ t.tid \in inv.running
       /\ LET id == t.ids[1]
              o == SingleMark(id, resp)
              fs1 == SetStatus(files, id, o.status, o.error, o.url)
              tr1 == transfers \ {t}
              running == inv.running \ {t.tid}
              thrown == TransferPromise(resp) = "rejected"
              sh == IF thrown THEN [taken |-> <<>>, rest |-> <<>>]
                    ELSE Shift(inv.queue, Limit - Cardinality(running))
              next == sh.taken
              st == LaunchSingles([fs |-> fs1, tr |-> tr1], next)
              rest == sh.rest
              after == [queue |-> rest,
                        running |-> running \cup {u.tid : u \in st.tr \ tr1}]
          IN /\ files' = st.fs
             /\ transfers' = st.tr
             /\ results' = AddResult(results, id, o.status, o.url, TRUE)
             /\ activeUploadsRef' = activeUploadsRef \ {id}
             /\ invs' = (invs \ {inv}) \cup
                          (IF thrown \/ (after.queue = <<>> /\ after.running = {})
                           THEN {} ELSE {after})
             /\ started' = started \cup (Range(next) \cap Ids(fs1))
             /\ resubmitted' = Resubmitted(fs1, Range(next))
  /\ ret' = NoCall
  /\ UNCHANGED <<rev, cfg, uploadQueueRef, timers, held, nextId, now,
                 userStarted, retries>>

(* ----------------------- revision B: processQueue --------------------- *)
\* processQueue is memoized on the configuration alone, so the uploadBatch,
\* uploadFile and updateFileStatus it reaches are those of the render it was
\* created in, whose `files` was still empty: files.find(f => f.id === id)
\* of updateFileStatus finds nothing there
InMemoFiles(id) == FALSE

\* the entries processQueue may select
Selectable(active) ==
  Filter(uploadQueueRef, LAMBDA f : f.status = "pending" /\ f.id \notin active)

\* the batch processQueue packs: up to batchSize entries, once, while a slot
\* is free
Batch(pendingFiles, availableSlots) ==
  IF availableSlots > 0 THEN Take(pendingFiles, cfg.batchSize) ELSE <<>>

\* uploadBatch up to its await: one controller and one POST for the batch
LaunchBatch(st, ids) ==
  IF ids = <<>> THEN st
  ELSE LET c == NewController(st.fs, st.tr)
       IN [fs |-> SetUploading(st.fs, Range(ids), c),
           tr |-> st.tr \cup {[tid |-> c, ids |-> ids, aborted |-> FALSE]}]

\* processQueue(): st = [fs, tr, active]; the result adds the ids it started
ProcessQueue(st) ==
  LET availableSlots == cfg.concurrency - Cardinality(st.active)
      pendingFiles == MapSeq(Selectable(st.active), LAMBDA f : f.id)
      chosen == IF cfg.enableBatching /\ cfg.batchSize > 1
                THEN Batch(pendingFiles, availableSlots)
                ELSE Take(pendingFiles, Max(availableSlots, 0))
      sent == IF cfg.enableBatching /\ cfg.batchSize > 1
              THEN LaunchBatch([fs |-> st.fs, tr |-> st.tr], chosen)
              ELSE LaunchSingles([fs |-> st.fs, tr |-> st.tr], chosen)
  IN [fs |-> sent.fs, tr |-> sent.tr, active |-> st.active \cup Range(chosen),
      ids |-> Range(chosen)]

\* setTimeout(processQueue, 100) fires
TimerProcessQueue ==
  /\ rev = "B"
  /\ timers # <<>>
  /\ LET st == ProcessQueue([fs |-> files, tr |-> transfers, active |-> activeUploadsRef])
     IN /\ files' = st.fs
        /\ transfers' = st.tr
        /\ activeUploadsRef' = st.active
        /\ started' = started \cup (st.ids \cap Ids(files))
        /\ resubmitted' = Resubmitted(files, st.ids)
  /\ timers' = Tail(timers)
  /\ ret' = NoCall
  /\ UNCHANGED <<rev, cfg, results, uploadQueueRef, held, invs, nextId, now,
                 userStarted, retries>>

\* the elements a server may put in the results array of a batch response
ResultElems ==
  {[success |-> "true", url |-> "url", file_url |-> "file_url", error |-> Undefined],
   [success |-> "true", url |-> Undefined, file_url |-> "file_url", error |-> Undefined],
   [success |-> "true", url |-> Undefined, file_url |-> Undefined, error |-> Undefined],
   [success |-> "false", url |-> Undefined, file_url |-> Undefined, error |-> "rejected"],
   [success |-> "false", url |-> Undefined, file_url |-> Undefined, error |-> Undefined],
   [success |-> "absent", url |-> "url", file_url |-> Undefined, error |-> Undefined]}

\* the two of them the scheduler runs are fed
BasicElems ==
  {[success |-> "true", url |-> "url", file_url |-> "file_url", error |-> Undefined],
   [success |-> "false", url |-> Undefined, file_url |-> Undefined, error |-> Undefined]}

\* uploadBatch, per element of the results array:
\* result && (result.success !== false)
ResultOutcome(id, r) ==
  IF r.success # "false"
  THEN [status |-> "success", error |-> Undefined,
        url |-> FirstOf(r.url, r.file_url, Blob(id))]
  ELSE [status |-> "error", url |-> Undefined,
        error |-> FirstOf(r.error, Undefined, UploadFailed)]

\* processQueue sends batches
Batching == cfg.enableBatching /\ cfg.batchSize > 1

\* what the POST of transfer t can end in: a response with a results array
\* of the length of the batch, a response without one ("plain": no array,
\* or one of another length), the client-side timeout, another failure, or
\* the abort
Responses(t) ==
  IF t.aborted THEN {[kind |-> "cancel"]}
  ELSE (IF Batching
        THEN {[kind |-> "results", results |-> rs] : rs \in [1..Len(t.ids) -> ResultElems]}
        ELSE {})
       \cup {[kind |-> "plain", url |-> u, file_url |-> f] :
               u \in {"url", Undefined}, f \in {"file_url", Undefined}}
       \cup {[kind |-> "timeout"]}
       \cup {[kind |-> "failed", message |-> m] : m \in {"Network Error", Undefined}}

\* the responses the scheduler runs are fed
BasicResponses(t) ==
  IF t.aborted THEN {[kind |-> "cancel"]}
  ELSE (IF Batching
        THEN {[kind |-> "results", results |-> rs] : rs \in [1..Len(t.ids) -> BasicElems]}
        ELSE {[kind |-> "plain", url |-> "url", file_url |-> Undefined],
              [kind |-> "failed", message |-> Undefined]})
       \cup {[kind |-> "timeout"]}

\* an aborted batch taken for an answered one without a results array
MarksAbortAnswered(t, resp) ==
  [i \in 1..Len(t.ids) |->
     [status |-> "success", error |-> Undefined, url |-> Blob(t.ids[i])]]

\* a timed out batch reported as a plain failure
MarksNoTimeout(t, resp) ==
  [i \in 1..Len(t.ids) |->
     [status |-> "error", error |-> UploadFailed, url |-> Undefined]]

\* the updateFileStatus calls of uploadBatch / uploadFile for a response,
\* one per entry of the transfer, in order
Marks(t, resp) ==
  [i \in 1..Len(t.ids) |->
     CASE resp.kind = "cancel" ->
            [status |-> "cancelled", error |-> Undefined, url |-> Undefined]
       [] resp.kind = "timeout" ->
            [status |-> "error", error |-> TimedOut, url |-> Undefined]
       [] resp.kind = "failed" ->
            [status |-> "error", url |-> Undefined,
             error |-> FirstOf(resp.message, Undefined, UploadFailed)]
       [] resp.kind = "results" -> ResultOutcome(t.ids[i], resp.results[i])
       [] resp.kind = "plain" ->
            [status |-> "success", error |-> Undefined,
             url |-> FirstOf(resp.url, resp.file_url, Blob(t.ids[i]))]]

\* updateFileStatus for every entry of the transfer, in order
RECURSIVE SettleAll(_, _, _, _)
SettleAll(st, ids, os, k) ==
  IF k > Len(ids) THEN st
  ELSE SettleAll(
         [fs |-> SetStatus(st.fs, ids[k], os[k].status, os[k].error, os[k].url),
          rs |-> AddResult(st.rs, ids[k], os[k].status, os[k].url, InMemoFiles(ids[k]))],
         ids, os, k + 1)

\* the POST of uploadBatch or uploadFile settles: try/catch, then finally,
\* which frees the ids and calls processQueue()
SettleB(t, resp) ==
  /\ rev = "B"
  /\ t \in transfers
  /\ resp \in Responses(t)
  /\ LET os == Marks(t, resp)
         done == SettleAll([fs |-> files, rs |-> results], t.ids, os, 1)
         st == ProcessQueue([fs |-> done.fs, tr |-> transfers \ {t},
                             active |-> activeUploadsRef \ Range(t.ids)])
     IN /\ files' = st.fs
        /\ results' = done.rs
        /\ transfers' = st.tr
        /\ activeUploadsRef' = st.active
        /\ started' = started \cup (st.ids \cap Ids(files))
        /\ resubmitted' = Resubmitted(done.fs, st.ids)
        /\ ret' = [op |-> "settle", ids |-> t.ids, response |-> resp,
                   marks |-> os]
  /\ UNCHANGED <<rev, cfg, uploadQueueRef, timers, held, invs, nextId, now,
                 userStarted, retries>>

(* ------------------------------ caller actions ------------------------ *)
\* file.abortController.abort() for the entries of `files` that show as
\* uploading: the requests those controllers belong to
AbortNothing(tr, cs) == tr

\* abort() reaching every request on its way, whichever controller it has
AbortAll(tr, cs) == {[t EXCEPT !.aborted = TRUE] : t \in tr}

Abort(tr, cs) ==
  {IF t.tid \in cs THEN [t EXCEPT !.aborted = TRUE] ELSE t : t \in tr}

AbortableControllers(fs, ids) ==
  UNION {fs[i].abortController : i \in {j \in 1..Len(fs) :
            fs[j].id \in ids /\ fs[j].status = "uploading"}}

\* removeFile(id)
RemoveFile(id) ==
  /\ transfers' = Abort(transfers, AbortableControllers(files, {id}))
  /\ files' = Filter(files, LAMBDA f : f.id # id)
  /\ uploadQueueRef' = Filter(uploadQueueRef, LAMBDA f : f.id # id)
  /\ activeUploadsRef' = activeUploadsRef \ {id}
  /\ results' = Filter(results, LAMBDA r : r.id # id)
  /\ ret' = NoCall
  /\ started' = started \ {id}
  /\ UNCHANGED <<rev, cfg, timers, held, invs, nextId, now, userStarted, retries>>
  /\ resubmitted' = {}

\* ResetFile leaving progress and eta as they were
ResetFileKeepsProgress(f) ==
  [f EXCEPT !.status = "pending",
            !.error = Undefined, !.abortController = {}, !.startTime = {}]

\* retryFile: resetFile
ResetFile(f) ==
  [f EXCEPT !.status = "pending", !.progress = 0, !.eta = 0,
            !.error = Undefined, !.abortController = {}, !.startTime = {}]

\* retryFile(id): nothing happens unless files.find(f => f.id === id) finds
\* the entry
RetryFile(id) ==
  IF id \notin Ids(files)
  THEN /\ ret' = NoCall
       /\ resubmitted' = {}
       /\ UNCHANGED <<rev, cfg, files, results, uploadQueueRef, activeUploadsRef,
                      timers, held, invs, transfers, nextId, now, started,
                      userStarted, retries>>
  ELSE /\ retries < MaxRetries
       /\ rev = "B" => Len(timers) < MaxTimers
       /\ LET resetFile == ResetFile(Find(files, id))
          IN /\ files' = MapSeq(files, LAMBDA f : IF f.id = id THEN resetFile ELSE f)
             /\ uploadQueueRef' = MapSeq(uploadQueueRef,
                                    LAMBDA f : IF f.id = id THEN QueueEntry(resetFile) ELSE f)
       /\ timers' = IF rev = "B" THEN Append(timers, <<>>) ELSE timers
       /\ retries' = retries + 1
       /\ ret' = NoCall
       /\ UNCHANGED <<rev, cfg, results, activeUploadsRef, held, invs, transfers,
                      nextId, now, started, userStarted>>
       /\ resubmitted' = {}

\* clearAll()
ClearAll ==
  /\ files # <<>>
  /\ transfers' = Abort(transfers, AbortableControllers(files, Ids(files)))
  /\ files' = <<>>
  /\ results' = <<>>
  /\ uploadQueueRef' = <<>>
  /\ activeUploadsRef' = {}
  /\ ret' = NoCall
  /\ started' = {}
  /\ UNCHANGED <<rev, cfg, timers, held, invs, nextId, now, userStarted, retries>>
  /\ resubmitted' = {}

\* uploadingFiles.reduce((sum, file) => sum + file.progress, 0)
RECURSIVE SumProgress(_)
SumProgress(fs) ==
  IF fs = <<>> THEN 0 ELSE Head(fs).progress + SumProgress(Tail(fs))

\* getProgress leaving the entries on their way out of overallProgress
getProgressSkipsUploading(fs) ==
  LET totalFiles == Len(fs)
      completedFiles == Len(Filter(fs, LAMBDA f : f.status = "success"))
      failedFiles == Len(Filter(fs, LAMBDA f : f.status = "error"))
      uploadingFiles == Filter(fs, IsUploading)
  IN [totalFiles |-> totalFiles,
      completedFiles |-> completedFiles,
      failedFiles |-> failedFiles,
      overallProgress |->
        IF totalFiles > 0
        THEN Round(completedFiles * 100, totalFiles)
        ELSE 0,
      isUploading |-> Len(uploadingFiles) > 0]

\* getProgress() of the render whose `files` is fs
getProgress(fs) ==
  LET totalFiles == Len(fs)
      completedFiles == Len(Filter(fs, LAMBDA f : f.status = "success"))
      failedFiles == Len(Filter(fs, LAMBDA f : f.status = "error"))
      uploadingFiles == Filter(fs, IsUploading)
  IN [totalFiles |-> totalFiles,
      completedFiles |-> completedFiles,
      failedFiles |-> failedFiles,
      overallProgress |->
        IF totalFiles > 0
        THEN Round(completedFiles * 100 + SumProgress(uploadingFiles), totalFiles)
        ELSE 0,
      isUploading |-> Len(uploadingFiles) > 0]

\* the caller asks for the progress summary
GetProgress ==
  /\ ret' = [op |-> "getProgress", summary |-> getProgress(files)]
  /\ resubmitted' = {}
  /\ UNCHANGED <<rev, cfg, files, results, uploadQueueRef, activeUploadsRef,
                 timers, held, invs, transfers, nextId, now, started,
                 userStarted, retries>>

\* getResults handing out the results state as it is
getResultsUnfiltered(rs, fs) == rs

\* getResults() of the render whose `results` is rs and whose `files` is fs:
\* results.filter(result => files.find(f => f.id === result.id)?.status === 'success')
getResults(rs, fs) ==
  Filter(rs, LAMBDA r : r.id \in Ids(fs) /\ Find(fs, r.id).status = "success")

\* the caller asks for the results
GetResults ==
  /\ ret' = [op |-> "getResults", results |-> getResults(results, files)]
  /\ resubmitted' = {}
  /\ UNCHANGED <<rev, cfg, files, results, uploadQueueRef, activeUploadsRef,
                 timers, held, invs, transfers, nextId, now, started,
                 userStarted, retries>>

(* ------------------------------ specification ------------------------- *)
Config(maxFiles, concurrency, enableBatching, batchSize) ==
  [maxFiles |-> maxFiles, maxFileSize |-> DefaultMaxFileSize,
   allowedTypes |-> DefaultAllowedTypes, concurrency |-> concurrency,
   enableBatching |-> enableBatching, batchSize |-> batchSize]

InitState ==
  /\ files = <<>>
  /\ results = <<>>
  /\ uploadQueueRef = <<>>
  /\ activeUploadsRef = {}
  /\ timers = <<>>
  /\ held = {}
  /\ invs = {}
  /\ transfers = {}
  /\ nextId = 1
  /\ now = 1
  /\ ret = NoCall
  /\ started = {}
  /\ userStarted = FALSE
  /\ retries = 0
  /\ resubmitted = {}

InitA ==
  /\ rev = "A"
  /\ cfg \in {Config(MaxIds, c, TRUE, 2) : c \in 1..MaxConcurrency}
  /\ InitState

NextA ==
  \/ \E cands \in SeqsUpTo(GoodCands, MaxCands) : AddFilesNow(cands, FALSE)
  \/ ExplicitStart
  \/ AutoStart
  \/ \E t \in transfers : \E resp \in BasicSingleResponses(t) : SettleSingleA(t, resp)
  \/ \E id \in Ids(files) : RemoveFile(id)
  \/ \E id \in 1..MaxIds : RetryFile(id)
  \/ ClearAll

SpecA == InitA /\ [][NextA]_vars

InitB ==
  /\ rev = "B"
  /\ cfg \in {Config(MaxIds, c, e, b) :
               c \in 1..MaxConcurrency, e \in BOOLEAN, b \in 2..MaxBatchSize}
  /\ InitState

NextB ==
  \/ \E cands \in SeqsUpTo(GoodCands, MaxCands) : AddFilesNow(cands, FALSE)
  \/ TimerProcessQueue
  \/ \E t \in transfers : \E resp \in BasicResponses(t) : SettleB(t, resp)
  \/ \E id \in Ids(files) : RemoveFile(id)
  \/ \E id \in 1..MaxIds : RetryFile(id)
  \/ ClearAll

SpecB == InitB /\ [][NextB]_vars

\* admission alone: any candidates, with and without a translation table,
\* by the addFiles of the latest render or by one a caller held on to
InitAdmit ==
  /\ rev \in {"A", "B"}
  /\ cfg \in {Config(m, 1, TRUE, 2) : m \in 1..MaxIds}
  /\ InitState

NextAdmit ==
  \/ \E cands \in SeqsUpTo(AllCands, MaxCands) : \E t \in BOOLEAN : AddFilesNow(cands, t)
  \/ HoldAddFiles
  \/ \E cands \in SeqsUpTo(AllCands, MaxCands) : \E t \in BOOLEAN : AddFilesHeld(cands, t)
  \/ \E id \in Ids(files) : RemoveFile(id)
  \/ ClearAll

SpecAdmit == InitAdmit /\ [][NextAdmit]_vars

\* revision A with the files of one addFiles call and the progress events
\* of the POSTs
NextProgress ==
  \/ \E cands \in SeqsUpTo(GoodCands, MaxCands) : nextId = 1 /\ AddFilesNow(cands, FALSE)
  \/ ExplicitStart
  \/ AutoStart
  \/ \E t \in transfers : \E p \in ProgressValues : \E e \in ElapsedSeconds :
        UploadProgress(t, p, e)
  \/ \E t \in transfers : \E resp \in BasicSingleResponses(t) : SettleSingleA(t, resp)
  \/ \E id \in Ids(files) : RemoveFile(id)
  \/ \E id \in 1..MaxIds : RetryFile(id)
  \/ ClearAll
  \/ GetProgress

SpecProgress == InitA /\ [][NextProgress]_vars

\* both revisions with the files of one addFiles call and every way a POST
\* can end
NextTransfers ==
  \/ \E cands \in SeqsUpTo(GoodCands, MaxCands) : nextId = 1 /\ AddFilesNow(cands, FALSE)
  \/ ExplicitStart
  \/ AutoStart
  \/ TimerProcessQueue
  \/ \E t \in transfers : \E resp \in SingleResponses(t) : SettleSingleA(t, resp)
  \/ \E t \in transfers : \E resp \in Responses(t) : SettleB(t, resp)
  \/ \E id \in Ids(files) : RemoveFile(id)
  \/ ClearAll

SpecTransfers == (InitA \/ InitB) /\ [][NextTransfers]_vars

\* both revisions with the files of one addFiles call, progress events of
\* every size at every delay, and retryFile
InitEta ==
  /\ \/ rev = "A" /\ cfg = Config(MaxIds, MaxConcurrency, TRUE, 2)
     \/ rev = "B" /\ cfg \in {Config(MaxIds, MaxConcurrency, e, 2) : e \in BOOLEAN}
  /\ InitState

NextEta ==
  \/ \E cands \in SeqsUpTo(GoodCands, MaxCands) : nextId = 1 /\ AddFilesNow(cands, FALSE)
  \/ ExplicitStart
  \/ AutoStart
  \/ TimerProcessQueue
  \/ \E t \in transfers : \E p \in EtaProgressValues : \E e \in EtaElapsedSeconds :
        UploadProgress(t, p, e)
  \/ \E t \in transfers : \E resp \in BasicSingleResponses(t) : SettleSingleA(t, resp)
  \/ \E t \in transfers : \E resp \in BasicResponses(t) : SettleB(t, resp)
  \/ \E id \in 1..MaxIds : RetryFile(id)

SpecEta == InitEta /\ [][NextEta]_vars

\* both revisions with the files of one addFiles call, retryFile and the
\* caller asking for the results
NextResults ==
  \/ \E cands \in SeqsUpTo(GoodCands, MaxCands) : nextId = 1 /\ AddFilesNow(cands, FALSE)
  \/ ExplicitStart
  \/ AutoStart
  \/ TimerProcessQueue
  \/ \E t \in transfers : \E resp \in BasicSingleResponses(t) : SettleSingleA(t, resp)
  \/ \E t \in transfers : \E resp \in BasicResponses(t) : SettleB(t, resp)
  \/ \E id \in Ids(files) : RemoveFile(id)
  \/ \E id \in 1..MaxIds : RetryFile(id)
  \/ ClearAll
  \/ GetResults

SpecResults == InitEta /\ [][NextResults]_vars

Init == InitA \/ InitB

Next == NextA \/ NextB

Spec == Init /\ [][Next]_vars

(* ------------------------------ claims -------------------------------- *)
InFlight(id) == {t \in transfers : ~t.aborted /\ id \in Range(t.ids)}

\* C1: in the startBatchUpload revision the number of entries with status
\* 'uploading' never exceeds config.concurrency
C1_ConcurrencyBoundA ==
  rev = "A" => Cardinality(Uploading(files)) <= cfg.concurrency

\* C2: in the processQueue revision with batching enabled the number of
\* entries with status 'uploading' never exceeds config.concurrency
C2_ConcurrencyBoundB ==
  (rev = "B" /\ cfg.enableBatching) =>
     Cardinality(Uploading(files)) <= cfg.concurrency

\* C3: as long as the caller has not invoked startBatchUpload, admitted
\* entries stay pending and no POST has been issued
C3_NoAutoStart ==
  (rev = "A" /\ ~userStarted) =>
     /\ transfers = {}
     /\ \A i \in 1..Len(files) : files[i].status = "pending"

\* C5: in the processQueue revision no step starts a transfer for an entry
\* that has settled and was not reset by retryFile since
C5_NoResubmission ==
  rev = "B" => resubmitted = {}

\* C6: at any time at most one transfer is in flight for an entry id
C6_NoDoubleSubmission ==
  rev = "A" => \A id \in 1..MaxIds : Cardinality(InFlight(id)) <= 1

SettleSome ==
  \E t \in transfers : \E resp \in BasicSingleResponses(t) : SettleSingleA(t, resp)

NextOnce ==
  \/ \E cands \in SeqsUpTo(GoodCands, MaxCands) : nextId = 1 /\ AddFilesNow(cands, FALSE)
  \/ ExplicitStart
  \/ AutoStart
  \/ SettleSome
  \/ \E id \in Ids(files) : RemoveFile(id)
  \/ \E id \in 1..MaxIds : RetryFile(id)
  \/ ClearAll

LiveA == InitA /\ [][NextOnce]_vars /\ WF_vars(SettleSome)

\* the entries a running startBatchUpload invocation has taken on
Claimed(id) ==
  \E inv \in invs :
    \/ id \in Range(inv.queue)
    \/ \E t \in transfers : t.tid \in inv.running /\ id \in Range(t.ids)

Settled(id) == id \notin Ids(files) \/ Find(files, id).status \in Terminal

Refilled(inv) ==
  inv.queue # <<>> => Cardinality(inv.running) = Limit

\* C4: one startBatchUpload invocation drains its queue by itself: every
\* entry it took on reaches success, error or cancelled or is removed, its
\* free slots are refilled while it holds unstarted entries, and it ends
C4_DrainsToCompletion ==
  /\ [](\A inv \in invs : Refilled(inv))
  /\ \A id \in 1..MaxIds : Claimed(id) ~> Settled(id)
  /\ (invs # {}) ~> (invs = {})

\* the invocation that held entries back has drained: with one slot, both
\* entries of the queue have settled and no invocation is left
C4_Witness ==
  /\ rev = "A" /\ cfg.concurrency = 1 /\ invs = {} /\ transfers = {}
  /\ Len(files) = 2
  /\ \A i \in 1..Len(files) : files[i].status \in Terminal

AcceptedBefore(r, k) == Cardinality({j \in 1..(k - 1) : r.verdicts[j] = "accepted"})

AcceptedCands(r) ==
  LET at == SelectSeq([k \in 1..Len(r.cands) |-> k], LAMBDA k : r.verdicts[k] = "accepted")
  IN [i \in 1..Len(at) |-> r.cands[at[i]]]

IsNewEntryOf(f, c) ==
  /\ f.name = c.name /\ f.size = c.size /\ f.type = c.type
  /\ f.status = "pending" /\ f.progress = 0 /\ f.eta = 0

AllValid(cands) ==
  \A k \in 1..Len(cands) :
    cands[k].type \in cfg.allowedTypes /\ cands[k].size <= cfg.maxFileSize

C10_ReasonsNameFile ==
  ret.op = "addFiles" =>
     /\ ret.addedFiles + Len(ret.errors) = Len(ret.cands)
     /\ \A e \in Range(ret.errors) : e.file \in {c.name : c \in Range(ret.cands)}

(* ------------------------------ entry claims -------------------------- *)
\* the transfers a step has issued
Issued == {t.tid : t \in transfers' \ transfers}

\* what a step of a transfer may change in the queue when none of the
\* transfer's entries is queued any more: nothing, but for the entries the
\* drain loop hands to the transfers it issues in the same step
OnlyLaunches ==
  /\ Len(files') = Len(files)
  /\ \A i \in 1..Len(files) :
       \/ files'[i] = files[i]
       \/ /\ files'[i].abortController \subseteq Issued
          /\ files'[i].abortController # {}
          /\ files'[i].id = files[i].id

\* C11: in the startBatchUpload revision removeFile(id) on an 'uploading'
\* entry aborts the POST the entry's abortController belongs to, takes the
\* entry out of the queue (one uploading entry less, the id off
\* activeUploadsRef) and leaves every other entry as it is; afterwards no
\* progress event or settlement of a transfer whose entry is gone changes
\* the queue, and an id that left the queue does not come back
C11_RemovalCancels ==
  [][/\ \A id \in Ids(files) \ Ids(files') :
          (Find(files, id).status = "uploading" /\ RemoveFile(id)) =>
             /\ id \notin Ids(files')
             /\ \A t \in transfers :
                  t.tid \in Find(files, id).abortController =>
                     [t EXCEPT !.aborted = TRUE] \in transfers'
             /\ Cardinality(Uploading(files')) = Cardinality(Uploading(files)) - 1
             /\ id \notin activeUploadsRef'
             /\ files' = SelectSeq(files, LAMBDA f : f.id # id)
     /\ \A t \in transfers :
          Range(t.ids) \cap Ids(files) = {} =>
             /\ \A p \in ProgressValues : \A e \in ElapsedSeconds :
                  (transfers' = transfers /\ UploadProgress(t, p, e)) => files' = files
             /\ \A resp \in SingleResponses(t) :
                  (t \notin transfers' /\ SettleSingleA(t, resp)) => OnlyLaunches
     /\ \A id \in 1..MaxIds :
          (id < nextId /\ id \notin Ids(files)) => id \notin Ids(files')
    ]_vars

\* an uploading entry has been removed: its POST is aborted and has yet to
\* settle, and the entry that was queued next to it is still there
C11_Witness ==
  /\ rev = "A" /\ Len(files) = 1
  /\ \E t \in transfers : t.aborted /\ Range(t.ids) \cap Ids(files) = {}

\* C12: an entry has status 'success' exactly when it has an uploadedUrl
C12_SuccessIffUrl ==
  \A i \in 1..Len(files) :
    files[i].status = "success" <=> files[i].uploadedUrl # Undefined

\* C13: retryFile(id) for a queued id sets the entry to pending, progress 0,
\* eta 0, without error, abortController and startTime, keeps its id, name,
\* size, type and place, and leaves the other entries alone; for an id that
\* is not queued it changes nothing
C13_RetryResets ==
  [][\A id \in 1..MaxIds :
       RetryFile(id) =>
         IF id \in Ids(files)
         THEN /\ Len(files') = Len(files)
              /\ \A i \in 1..Len(files) :
                   IF files[i].id = id
                   THEN /\ files'[i].status = "pending"
                        /\ files'[i].progress = 0 /\ files'[i].eta = 0
                        /\ files'[i].error = Undefined
                        /\ files'[i].abortController = {}
                        /\ files'[i].startTime = {}
                        /\ files'[i].id = id
                        /\ files'[i].name = files[i].name
                        /\ files'[i].size = files[i].size
                        /\ files'[i].type = files[i].type
                   ELSE files'[i] = files[i]
         ELSE UNCHANGED <<files, results, uploadQueueRef, activeUploadsRef,
                          timers, invs, transfers>>
    ]_vars

\* an entry that had reported progress has been retried, next to another
\* entry that keeps its progress
C13_Witness ==
  /\ retries = 1 /\ Len(files) = 2
  /\ files[1].status = "pending" /\ files[1].id \in started /\ files[1].progress = 0
  /\ files[2].progress = 50

(* ------------------------------ transfer claims ----------------------- *)
\* C14: with batching enabled, one start action over k pending entries,
\* 2 <= k <= batchSize, issues exactly one POST, which carries all k
C14_OnePostPerBatch ==
  [][(/\ rev = "A" /\ cfg.enableBatching
      /\ Len(PendingIds(files)) \in 2..cfg.batchSize
      /\ ExplicitStart) =>
        \E t \in transfers' \ transfers :
          /\ transfers' \ transfers = {t}
          /\ t.ids = PendingIds(files)
    ]_vars

\* every element of the results array says success: true or success: false
ExplicitFlags(resp) ==
  \A i \in 1..Len(resp.results) : resp.results[i].success \in {"true", "false"}

\* C15: when a batch is answered by a results array of its length, entry i
\* ends with outcome i, success or error by position, and
\* getProgress().failedFiles counts the failed elements
C15_PartialBatchFailure ==
  [][(rev = "B" /\ ret'.op = "settle" /\ ret'.response.kind = "results") =>
      \A t \in transfers : LET resp == ret'.response IN
       (/\ t.ids = ret'.ids
        /\ ExplicitFlags(resp)
        /\ Range(t.ids) \subseteq Ids(files)
        /\ SettleB(t, resp)) =>
          /\ \A i \in 1..Len(t.ids) :
               Find(files', t.ids[i]).status =
                 (IF resp.results[i].success = "true" THEN "success" ELSE "error")
          /\ getProgress(files').failedFiles =
               Cardinality({i \in 1..Len(files) :
                  \/ files[i].id \notin Range(t.ids) /\ files[i].status = "error"
                  \/ \E k \in 1..Len(t.ids) :
                       t.ids[k] = files[i].id /\ resp.results[k].success = "false"})
    ]_vars

\* the outcome the specification gives for an element of the results array:
\* an error unless the success flag is set
ClaimedOutcome(id, r) ==
  IF r.success = "true"
  THEN [status |-> "success", error |-> Undefined,
        url |-> FirstOf(r.url, r.file_url, Blob(id))]
  ELSE [status |-> "error", url |-> Undefined,
        error |-> FirstOf(r.error, Undefined, UploadFailed)]

\* C16: for a results array of the length of the batch, element i without a
\* true success flag marks entry i 'error' with the element's error or
\* 'Upload failed'; otherwise entry i is marked 'success' with the first of
\* url, file_url and the placeholder
C16_StructuredOutcome ==
  (ret.op = "settle" /\ ret.response.kind = "results") =>
     \A i \in 1..Len(ret.ids) :
       ret.marks[i] = ClaimedOutcome(ret.ids[i], ret.response.results[i])

C18_FailureIsolation ==
  [][\A t \in transfers \ transfers' : \A resp \in SingleResponses(t) :
       (/\ rev = "A"
        /\ SingleMark(t.ids[1], resp).status = "error" /\ SettleSingleA(t, resp)) =>
          /\ \A u \in transfers \ {t} : u \in transfers'
          /\ \A inv \in invs :
               (t.tid \in inv.running /\ inv.queue # <<>>) =>
                  \E u \in transfers' \ transfers : u.ids = <<Head(inv.queue)>>
          /\ Len(files') = Len(files)
          /\ \A i \in 1..Len(files) :
               \/ files[i].id = t.ids[1]
               \/ files'[i] = files[i]
               \/ files'[i].abortController \subseteq Issued
                    /\ files'[i].abortController # {}
    ]_vars

\* with one slot, the first entry has failed and the second one is on its way
C18_Witness ==
  /\ rev = "A" /\ cfg.concurrency = 1 /\ Len(files) = 2
  /\ files[1].status = "error" /\ files[2].status = "uploading"
  /\ \E t \in transfers : t.ids = <<files[2].id>> /\ ~t.aborted

RECURSIVE UploadingSum(_)
UploadingSum(n) ==
  IF n = 0 THEN 0
  ELSE UploadingSum(n - 1) +
       (IF files[n].status = "uploading" THEN files[n].progress ELSE 0)

\* C20: getProgress() gives the length of the queue, the number of 'success'
\* and of 'error' entries, whether an entry is 'uploading', and
\* round((100 * completedFiles + progress of the uploading entries) /
\* totalFiles), all 0 and false for an empty queue; asked again with the
\* queue unchanged it gives the same
C20_GetProgress ==
  [][ret'.op = "getProgress" =>
       LET s == ret'.summary
           done == Cardinality({i \in 1..Len(files') : files'[i].status = "success"})
           num == 100 * done + UploadingSum(Len(files))'
       IN /\ s.totalFiles = Len(files')
          /\ s.completedFiles = done
          /\ s.failedFiles =
               Cardinality({i \in 1..Len(files') : files'[i].status = "error"})
          /\ s.isUploading <=> Uploading(files') # {}
          /\ IF Len(files') = 0
             THEN s.overallProgress = 0
             ELSE /\ 2 * Len(files') * s.overallProgress <= 2 * num + Len(files')
                  /\ 2 * num + Len(files') < 2 * Len(files') * (s.overallProgress + 1)
          /\ ret.op = "getProgress" => ret' = ret
    ]_vars

\* the summary of a queue with one entry done and one half way
C20_Witness ==
  /\ ret.op = "getProgress" /\ Len(files) = 2
  /\ ret.summary.completedFiles = 1 /\ ret.summary.isUploading
  /\ ret.summary.overallProgress = 75

\* C21: the eta of an entry is never negative and is 0 while the entry has
\* no start time or no progress; a progress event for an entry with a start
\* time that reports progress p > 0, e seconds after the start, leaves
\* eta = round((100 - p) / (p / e)), and changes no entry but its own
C21_EtaFormula ==
  [][/\ \A i \in 1..Len(files') :
          /\ files'[i].eta >= 0
          /\ (files'[i].startTime = {} \/ files'[i].progress = 0) => files'[i].eta = 0
     /\ (transfers' = transfers /\ retries' = retries /\ nextId' = nextId) =>
          \A t \in transfers : \A p \in EtaProgressValues : \A e \in EtaElapsedSeconds :
            UploadProgress(t, p, e) =>
               \A i \in 1..Len(files) :
                 IF files[i].id \in Range(t.ids)
                 THEN /\ files'[i].progress = p
                      /\ (p > 0 /\ files[i].startTime # {}) =>
                            /\ 2 * p * files'[i].eta <= 2 * (100 - p) * e + p
                            /\ 2 * (100 - p) * e + p < 2 * p * (files'[i].eta + 1)
                 ELSE files'[i] = files[i]
    ]_vars

\* 30 percent sent in two seconds: 70 / 15 = 4.67 seconds to go, shown as 5
C21_Witness ==
  \E i \in 1..Len(files) :
    /\ files[i].status = "uploading" /\ files[i].startTime # {}
    /\ files[i].progress = 30 /\ files[i].eta = 5

\* C22: what getResults returns are results of entries that are in the queue
\* with status 'success' at that moment; right after removeFile(id),
\* retryFile(id) or clearAll, getResults returns no result of that entry
C22_ResultsOfSuccessOnly ==
  [][/\ ret'.op = "getResults" =>
          \A k \in 1..Len(ret'.results) :
            \E i \in 1..Len(files') :
              files'[i].id = ret'.results[k].id /\ files'[i].status = "success"
     /\ \A id \in Ids(files) :
          (RemoveFile(id) \/ RetryFile(id) \/ ClearAll) =>
             \A k \in 1..Len(getResults(results', files')) :
               getResults(results', files')[k].id # id
    ]_vars

\* an entry had succeeded and was reset by retryFile: its result is still
\* in the results state and getResults has just left it out
C22_Witness ==
  /\ ret.op = "getResults" /\ ret.results = <<>>
  /\ results # <<>> /\ retries = 1
  /\ \E i \in 1..Len(files) :
       files[i].id = results[1].id /\ files[i].status = "pending"

\* C23: the queue never holds more than maxFiles entries, also when an
\* addFiles call is made through a callback that was created before the
\* entries of an earlier call became visible
C23_QueueWithinMaxFiles ==
  Len(files) <= cfg.maxFiles

\* C24: a batch answered without a results array of its own length has
\* every one of its entries marked 'success', all with the same location
C24_UniformFallback ==
  (rev = "B" /\ Batching /\ ret.op = "settle" /\ ret.response.kind = "plain") =>
     \A i \in 1..Len(ret.marks) :
       /\ ret.marks[i].status = "success"
       /\ ret.marks[i].url # Undefined
       /\ \A j \in 1..Len(ret.marks) : ret.marks[i].url = ret.marks[j].url

\* C25: in the startBatchUpload revision a POST is issued only for an entry
\* that is in the queue with status 'pending' when it is issued, so none is
\* issued for an entry removeFile or clearAll has taken out, whatever a
\* drain loop still holds in its own queue
C25_StartsOnlyQueuedPending ==
  [][rev = "A" =>
       \A u \in transfers' \ transfers :
         ~u.aborted =>
            \A k \in 1..Len(u.ids) :
              \E i \in 1..Len(files) :
                files[i].id = u.ids[k] /\ files[i].status = "pending"
    ]_vars

\* C26: in the startBatchUpload revision an entry of the queue that has a
\* POST on its way shows as 'uploading'; retryFile in particular does not
\* turn it 'pending' while that POST is still running
C26_InFlightIsUploading ==
  rev = "A" =>
    \A i \in 1..Len(files) :
      InFlight(files[i].id) # {} => files[i].status = "uploading"

\* C27: the results state never holds two results of the same entry id,
\* and neither does what getResults returns
C27_OneResultPerEntry ==
  /\ \A i \in 1..Len(results) : \A j \in 1..Len(results) :
       results[i].id = results[j].id => i = j
  /\ LET rs == getResults(results, files)
     IN \A i \in 1..Len(rs) : \A j \in 1..Len(rs) : rs[i].id = rs[j].id => i = j

\* C28: in the startBatchUpload revision no entry of the queue has status
\* 'cancelled': a POST is aborted only for an entry that removeFile or
\* clearAll takes out in the same call
C28_NoCancelledInQueue ==
  rev = "A" =>
    /\ \A i \in 1..Len(files) : files[i].status # "cancelled"
    /\ \A t \in transfers : t.aborted => Range(t.ids) \cap Ids(files) = {}

\* two POSTs were on their way, the entry of one of them was removed and its
\* POST aborted, the other entry is still uploading
C28_Witness ==
  /\ rev = "A" /\ cfg.concurrency = 2 /\ nextId = 3
  /\ Len(files) = 1 /\ files[1].status = "uploading"
  /\ \E t \in transfers : t.aborted /\ t.ids[1] # files[1].id
  /\ \E u \in transfers : ~u.aborted /\ u.ids[1] = files[1].id

\* C29: when the POST of uploadSingleFile settles, updateFileStatus gives
\* the entry its new status, error and uploadedUrl and leaves its progress,
\* eta, startTime and abortController as they were; every other entry is
\* as before, but for the ones the drain loop goes on to start
C29_SettleFrame ==
  [][(rev = "A" /\ uploadQueueRef' = uploadQueueRef /\ retries' = retries) =>
       \A t \in transfers \ transfers' : \A resp \in SingleResponses(t) :
         (/\ Len(results') = Len(results) + (IF resp.kind = "plain" THEN 1 ELSE 0)
          /\ SettleSingleA(t, resp)) =>
           /\ Len(files') = Len(files)
           /\ \A i \in 1..Len(files) :
                IF files[i].id = t.ids[1]
                THEN LET m == SingleMark(t.ids[1], resp)
                     IN files'[i] = [files[i] EXCEPT !.status = m.status,
                                                     !.error = m.error,
                                                     !.uploadedUrl = m.url]
                ELSE \/ files'[i] = files[i]
                     \/ \E c \in Issued :
                          files'[i] = [files[i] EXCEPT !.status = "uploading",
                                                       !.abortController = {c},
                                                       !.startTime = {now}]
    ]_vars

\* an entry answered when half of it was reported sent: 'success' at 50
C29_Witness ==
  \E i \in 1..Len(files) :
    /\ rev = "A" /\ files[i].status = "success"
    /\ files[i].progress = 50 /\ files[i].eta = 2
    /\ files[i].startTime # {} /\ files[i].abortController # {}

====
